---- MODULE Spec2Model ----
(***************************************************************************)
(* A model of xprintidle (src/xprintidle.c): one run of the program from   *)
(* main's argument parsing through get_x_idletime, the DPMS workaround     *)
(* workaroundCreepyXServer, and the final print.  Every Xlib call is one   *)
(* step whose outcome the X server (the environment) chooses.              *)
(*                                                                         *)
(* TLC's integers are 32 bits wide, so an unsigned long / uint64_t value   *)
(* is held as its 16 hexadecimal digits, most significant first, and the   *)
(* arithmetic the program does on it is done digit by digit, modulo 2^64.  *)
(* int arithmetic (the products of the CARD16 timeouts by 1000) stays      *)
(* below 2^31 and is done on TLC integers directly.                        *)
(***************************************************************************)
EXTENDS Integers, Sequences, FiniteSets, TLC

VARIABLES
  argv,       \* main's argv, argv[0] first (TLA+ index 1)
  pc,         \* the statement the program is at
  human,      \* main: int human
  idle,       \* main: uint64_t idle (written through *idle)
  ret,        \* the value get_x_idletime returned (0 until it returns)
  dpy,        \* the Display connection: "none", "open" or "closed"
  ssi,        \* the XScreenSaverInfo block: "none", "alloc" or "freed"
  ssi_idle,   \* ssi->idle as filled in by XScreenSaverQueryInfo
  vendrel,    \* get_x_idletime: int vendrel
  idleTime,   \* workaroundCreepyXServer: its parameter idleTime
  standby,    \* workaroundCreepyXServer: CARD16 standby
  suspend,    \* workaroundCreepyXServer: CARD16 suspend
  off,        \* workaroundCreepyXServer: CARD16 off
  state,      \* workaroundCreepyXServer: CARD16 state
  onoff,      \* workaroundCreepyXServer: BOOL onoff
  capable,    \* what DPMSCapable returned
  failed,     \* history: the DPMS queries that failed in this run
  calls,      \* history: the Xlib calls made so far, in order
  stdout,     \* the lines written to stdout
  stderr,     \* the lines written to stderr
  unitMag,    \* print_human_time: the values int unitMag took, in loop order
  exitStatus  \* the process's exit status, -1 while it runs

vars == <<argv, pc, human, idle, ret, dpy, ssi, ssi_idle, vendrel, idleTime,
          standby, suspend, off, state, onoff, capable, failed, calls,
          stdout, stderr, unitMag, exitStatus>>

----------------------------------------------------------------------------
(* Bounds of the model. *)

\* argc ranges over 1..MaxArgc
MaxArgc == 3
\* the small timeouts tried are 0..MaxTimeout seconds (next to 65535)
MaxTimeout == 1
\* the small raw idle times tried are k*1000 and k*1000+999, k in 0..MaxRawSec
MaxRawSec == 2
\* the durations formatted have each of their five components in 0..MaxUnit
MaxUnit == 2

----------------------------------------------------------------------------
(* Program constants. *)

U64Bits == 64
FIXED_VENDREL == 12000000
MS_PER_SEC == 1000
CARD16_MAX == 65535
DPMSModeOn == 0
DPMSModeStandby == 1
DPMSModeSuspend == 2
DPMSModeOff == 3
EXIT_SUCCESS == 0
EXIT_FAILURE == 1

XPRINTIDLE_VERSION == "0.3.0"

----------------------------------------------------------------------------
(* unsigned long / uint64_t as 16 hexadecimal digits, most significant     *)
(* first.                                                                  *)

HexLen == U64Bits \div 4

RECURSIVE Pow16(_)
Pow16(k) == IF k = 0 THEN 1 ELSE 16 * Pow16(k - 1)

\* the conversion of a non-negative int to unsigned long
ToU64(n) ==
  [i \in 1..HexLen |->
     IF HexLen - i >= 8 THEN 0 ELSE (n \div Pow16(HexLen - i)) % 16]

ULONG_MAX == [i \in 1..HexLen |-> 15]

\* the carry out of the digits right of position i when a and b are added
RECURSIVE CarryInto(_, _, _)
CarryInto(a, b, i) ==
  IF i = HexLen THEN 0
  ELSE (a[i + 1] + b[i + 1] + CarryInto(a, b, i + 1)) \div 16

\* a + b on unsigned long: the carry out of the top digit is dropped
AddU64(a, b) ==
  [i \in 1..HexLen |-> (a[i] + b[i] + CarryInto(a, b, i)) % 16]

\* a < b on unsigned long
RECURSIVE LtFrom(_, _, _)
LtFrom(a, b, i) ==
  IF i > HexLen THEN FALSE
  ELSE IF a[i] # b[i] THEN a[i] < b[i]
  ELSE LtFrom(a, b, i + 1)

LtU64(a, b) == LtFrom(a, b, 1)

----------------------------------------------------------------------------
(* What the environment may supply. *)

Options == {"-h", "--help", "-v", "--version", "-H", "--human-readable",
            "--bogus"}

\* the command lines: argv[0], then at most one option, then extra arguments
\* (main never reads an argument after argv[1])
Argvs ==
  {<<"xprintidle">>} \cup
  UNION {{<<"xprintidle", o>> \o [i \in 1..n |-> "extra"] : o \in Options} :
         n \in 0..(MaxArgc - 2)}

\* the CARD16 values a timeout may take
Card16Vals == (0..MaxTimeout) \cup {CARD16_MAX}

\* the CARD16 values the DPMS power level may take
StateVals == DPMSModeOn..(DPMSModeOff + 1)

\* the idle times the server may report
RawIdles ==
  {ToU64(k * MS_PER_SEC + d) : k \in 0..MaxRawSec, d \in {0, MS_PER_SEC - 1}}
  \cup {ToU64(CARD16_MAX * MS_PER_SEC),
        ToU64(3 * CARD16_MAX * MS_PER_SEC - 1),
        ToU64(3 * CARD16_MAX * MS_PER_SEC),
        ULONG_MAX}

\* the vendor releases the server may report
VendRels == {0, FIXED_VENDREL - 1, FIXED_VENDREL, FIXED_VENDREL + 1}

Zero == ToU64(0)

----------------------------------------------------------------------------
(* Output. *)

Line(kind, text, val) == [kind |-> kind, text |-> text, val |-> val]

\* print_usage: the lines of the usage text, written to stdout
print_usage(name) ==
  << Line("usage", "usage: " \o name \o " [OPTION]", Zero),
     Line("usage", "Query the X server for the user's idle time", Zero),
     Line("usage", "", Zero),
     Line("usage", "Options:", Zero),
     Line("usage", "  -h, --help              Show this text", Zero),
     Line("usage", "  -H, --human-readable    Output the time in a human readable format", Zero),
     Line("usage", "  -v, --version           Print the program version", Zero),
     Line("usage", "", Zero),
     Line("usage", "Report bugs at: https://github.com/g0hl1n/xprintidle/issues", Zero),
     Line("usage", "Written by Magnus Henoch and others; see", Zero),
     Line("usage", "https://github.com/g0hl1n/xprintidle/blob/master/AUTHORS", Zero) >>

\* print_version: one line on stdout
print_version == << Line("version", "xprintidle " \o XPRINTIDLE_VERSION, Zero) >>

----------------------------------------------------------------------------
(* print_human_time, lines 121-151. *)

\* line 124: int convFacs[]
convFacs == <<24 * 60 * 60 * 1000, 60 * 60 * 1000, 60 * 1000, 1000, 1>>
\* line 125: char *names[]
names == <<"day", "hour", "minute", "second", "millisecond">>
\* line 126
units == Len(convFacs)

\* time / d and time % d on uint64_t, d a positive int converted to
\* uint64_t: long division over the hexadecimal digits.  RemAt(x, d, i) is
\* what is left after the first i digits.
RECURSIVE RemAt(_, _, _)
RemAt(x, d, i) ==
  IF i = 0 THEN 0 ELSE (RemAt(x, d, i - 1) * 16 + x[i]) % d

DivU64(x, d) ==
  [i \in 1..HexLen |-> (RemAt(x, d, i - 1) * 16 + x[i]) \div d]

ModU64(x, d) == ToU64(RemAt(x, d, HexLen))

\* the value of the hexadecimal digits i..HexLen of x, at most 2^31 - 1
RECURSIVE LowFrom(_, _, _)
LowFrom(x, i, acc) ==
  IF i > HexLen THEN acc ELSE LowFrom(x, i + 1, 16 * acc + x[i])

\* line 131: the conversion of a uint64_t to int keeps the low 32 bits, as
\* a two's complement number
ToInt32(x) ==
  IF x[HexLen - 7] >= 8
    THEN (LowFrom(x, HexLen - 6, x[HexLen - 7] - 8) - 2147483647) - 1
    ELSE LowFrom(x, HexLen - 6, x[HexLen - 7])

\* line 131: int unitMag = time / convFacs[i]
UnitMagOf(time, i) == ToInt32(DivU64(time, convFacs[i]))

DigitChar == <<"0", "1", "2", "3", "4", "5", "6", "7", "8", "9">>

RECURSIVE DecNat(_)
DecNat(n) ==
  IF n < 10 THEN DigitChar[n + 1]
  ELSE DecNat(n \div 10) \o DigitChar[(n % 10) + 1]

\* printf's %d
Dec(n) ==
  IF n >= 0 THEN DecNat(n)
  ELSE LET last == (10 - (n % 10)) % 10
           rest == (n + last) \div 10
       IN "-" \o (IF rest = 0 THEN "" ELSE DecNat(0 - rest))
              \o DigitChar[last + 1]

\* (mutant) the "s" is printed whatever the magnitude
UnitText_AlwaysPlural(mag, name, firstPrint) ==
  (IF firstPrint = 0 THEN ", " ELSE "")
  \o Dec(mag) \o " " \o name \o "s"

\* lines 137-141: what one pass of the loop prints for a non-zero unitMag
UnitText(mag, name, firstPrint) ==
  (IF firstPrint = 0 THEN ", " ELSE "")
  \o Dec(mag) \o " " \o name
  \o (IF mag # 1 THEN "s" ELSE "")

\* lines 130-144: the loop from index i on, with the text printed so far
\* and the magnitudes computed so far
RECURSIVE HumanLoop(_, _, _, _, _)
HumanLoop(time, i, firstPrint, text, mags) ==
  IF i > units
    THEN [text |-> text, mags |-> mags, firstPrint |-> firstPrint]
    ELSE LET mag == UnitMagOf(time, i)
             rest == ModU64(time, convFacs[i])
         IN IF mag = 0
              THEN HumanLoop(rest, i + 1, firstPrint, text, Append(mags, mag))
              ELSE HumanLoop(rest, i + 1, 0,
                             text \o UnitText(mag, names[i], firstPrint),
                             Append(mags, mag))

\* the values unitMag takes in a call of print_human_time(time)
HumanMags(time) == HumanLoop(time, 1, 1, "", <<>>).mags

\* lines 146-150: the whole line, without its newline
HumanText(time) ==
  LET r == HumanLoop(time, 1, 1, "", <<>>)
  IN IF r.firstPrint # 0 THEN r.text \o "0 " \o names[units] \o "s"
     ELSE r.text

\* print_human_time(time): one line on stdout
print_human_time(time) == << Line("human", HumanText(time), time) >>

\* printf("%llu\n", idle): one line on stdout carrying the number
print_raw(time) == << Line("raw", "", time) >>

----------------------------------------------------------------------------
(* The state after the process image is set up, before main runs. *)

Init ==
  /\ argv \in Argvs
  /\ pc = "main"
  /\ human = 0
  /\ idle = Zero
  /\ ret = 0
  /\ dpy = "none"
  /\ ssi = "none"
  /\ ssi_idle = Zero
  /\ vendrel = 0
  /\ idleTime = Zero
  /\ standby = 0
  /\ suspend = 0
  /\ off = 0
  /\ state = 0
  /\ onoff = FALSE
  /\ capable = FALSE
  /\ failed = {}
  /\ calls = <<>>
  /\ stdout = <<>>
  /\ stderr = <<>>
  /\ unitMag = <<>>
  /\ exitStatus = -1

argc == Len(argv)
\* C's argv[i]
Arg(i) == argv[i + 1]

xvars == <<dpy, ssi, ssi_idle, vendrel, calls>>
wvars == <<idleTime, standby, suspend, off, state, onoff, capable, failed>>

----------------------------------------------------------------------------
(* main, lines 153-169: the argument parsing. *)

\* (mutant) the version is printed but the return is missing
VersionBranch_NoReturn ==
  /\ stdout' = stdout \o print_version
  /\ pc' = "XOpenDisplay"
  /\ UNCHANGED <<human, exitStatus>>

\* -v, --version: print the version and return EXIT_SUCCESS
VersionBranch ==
  /\ stdout' = stdout \o print_version
  /\ exitStatus' = EXIT_SUCCESS
  /\ pc' = "exit"
  /\ UNCHANGED human

\* -H, --human-readable: set human and go on to the query
HumanBranch ==
  /\ human' = 1
  /\ pc' = "XOpenDisplay"
  /\ UNCHANGED <<stdout, exitStatus>>

\* (mutant) the usage text is printed and EXIT_SUCCESS returned
HelpBranch_Success ==
  /\ stdout' = stdout \o print_usage(Arg(0))
  /\ exitStatus' = EXIT_SUCCESS
  /\ pc' = "exit"
  /\ UNCHANGED human

\* -h, --help: print the usage text and return EXIT_FAILURE
HelpBranch ==
  /\ stdout' = stdout \o print_usage(Arg(0))
  /\ exitStatus' = EXIT_FAILURE
  /\ pc' = "exit"
  /\ UNCHANGED human

\* no argument, or an argv[1] no branch matches: go on to the query
FallThrough ==
  /\ pc' = "XOpenDisplay"
  /\ UNCHANGED <<human, stdout, exitStatus>>

main_args ==
  /\ pc = "main"
  /\ IF argc # 1
       THEN IF Arg(1) \in {"-v", "--version"} THEN VersionBranch
            ELSE IF Arg(1) \in {"-H", "--human-readable"} THEN HumanBranch
            ELSE IF Arg(1) \in {"-h", "--help"} THEN HelpBranch
            ELSE FallThrough
       ELSE FallThrough
  /\ UNCHANGED <<argv, unitMag, idle, ret, stderr>>
  /\ UNCHANGED xvars
  /\ UNCHANGED wvars

----------------------------------------------------------------------------
(* get_x_idletime, lines 72-118. *)

\* a failure branch after the display was opened: the diagnostic, then
\* XCloseDisplay(dpy) and return -1
FailClosing(msg) ==
  /\ stderr' = Append(stderr, msg)
  /\ dpy' = "closed"
  /\ ret' = -1
  /\ pc' = "main_ret"

\* lines 77-81
XOpenDisplay ==
  /\ pc = "XOpenDisplay"
  /\ \E ok \in BOOLEAN :
       IF ok
         THEN /\ dpy' = "open"
              /\ calls' = Append(calls, "XOpenDisplay")
              /\ pc' = "XScreenSaverQueryExtension"
              /\ UNCHANGED <<stderr, ret>>
         ELSE /\ stderr' = Append(stderr, "couldn't open display")
              /\ calls' = Append(calls, "XOpenDisplay")
              /\ ret' = -1
              /\ pc' = "main_ret"
              /\ UNCHANGED dpy
  /\ UNCHANGED <<argv, unitMag, human, idle, ssi, ssi_idle, vendrel, stdout, exitStatus>>
  /\ UNCHANGED wvars

\* (mutant) the failure branch returns without XCloseDisplay
XScreenSaverQueryExtension_NoClose ==
  /\ pc = "XScreenSaverQueryExtension"
  /\ \E ok \in BOOLEAN :
       IF ok
         THEN /\ calls' = Append(calls, "XScreenSaverQueryExtension")
              /\ pc' = "XScreenSaverAllocInfo"
              /\ UNCHANGED <<stderr, dpy, ret>>
         ELSE /\ calls' = Append(calls, "XScreenSaverQueryExtension")
              /\ stderr' = Append(stderr, "screen saver extension not supported")
              /\ ret' = -1
              /\ pc' = "main_ret"
              /\ UNCHANGED dpy
  /\ UNCHANGED <<argv, unitMag, human, idle, ssi, ssi_idle, vendrel, stdout, exitStatus>>
  /\ UNCHANGED wvars

\* lines 83-87
XScreenSaverQueryExtension ==
  /\ pc = "XScreenSaverQueryExtension"
  /\ \E ok \in BOOLEAN :
       IF ok
         THEN /\ calls' = Append(calls, "XScreenSaverQueryExtension")
              /\ pc' = "XScreenSaverAllocInfo"
              /\ UNCHANGED <<stderr, dpy, ret>>
         ELSE /\ calls' = calls \o <<"XScreenSaverQueryExtension", "XCloseDisplay">>
              /\ FailClosing("screen saver extension not supported")
  /\ UNCHANGED <<argv, unitMag, human, idle, ssi, ssi_idle, vendrel, stdout, exitStatus>>
  /\ UNCHANGED wvars

\* lines 89-94
XScreenSaverAllocInfo ==
  /\ pc = "XScreenSaverAllocInfo"
  /\ \E ok \in BOOLEAN :
       IF ok
         THEN /\ ssi' = "alloc"
              /\ calls' = Append(calls, "XScreenSaverAllocInfo")
              /\ pc' = "XScreenSaverQueryInfo"
              /\ UNCHANGED <<stderr, dpy, ret>>
         ELSE /\ calls' = calls \o <<"XScreenSaverAllocInfo", "XCloseDisplay">>
              /\ FailClosing("couldn't allocate screen saver info")
              /\ UNCHANGED ssi
  /\ UNCHANGED <<argv, unitMag, human, idle, ssi_idle, vendrel, stdout, exitStatus>>
  /\ UNCHANGED wvars

\* lines 96-101
XScreenSaverQueryInfo ==
  /\ pc = "XScreenSaverQueryInfo"
  /\ \E ok \in BOOLEAN :
       IF ok
         THEN /\ \E raw \in RawIdles : ssi_idle' = raw
              /\ calls' = Append(calls, "XScreenSaverQueryInfo")
              /\ pc' = "VendorRelease"
              /\ UNCHANGED <<stderr, dpy, ret, ssi>>
         ELSE /\ calls' = calls \o <<"XScreenSaverQueryInfo", "XFree", "XCloseDisplay">>
              /\ ssi' = "freed"
              /\ FailClosing("couldn't query screen saver info")
              /\ UNCHANGED ssi_idle
  /\ UNCHANGED <<argv, unitMag, human, idle, vendrel, stdout, exitStatus>>
  /\ UNCHANGED wvars

\* (mutant) the comparison is <= instead of <
NeedsWorkaround_Le(v) == v <= FIXED_VENDREL

\* line 108: the releases the workaround is applied to
NeedsWorkaround(v) == v < FIXED_VENDREL

\* lines 107-112: VendorRelease reads the Display structure (no request);
\* below the fixed release workaroundCreepyXServer is entered with ssi->idle
VendorRelease ==
  /\ pc = "VendorRelease"
  /\ \E v \in VendRels :
       /\ vendrel' = v
       /\ IF NeedsWorkaround(v)
            THEN /\ idleTime' = ssi_idle
                 /\ pc' = "DPMSQueryExtension"
                 /\ UNCHANGED idle
            ELSE /\ idle' = ssi_idle
                 /\ pc' = "XFree"
                 /\ UNCHANGED idleTime
  /\ UNCHANGED <<argv, unitMag, human, ret, dpy, ssi, ssi_idle, calls, stdout, stderr,
                 exitStatus, standby, suspend, off, state, onoff, capable,
                 failed>>

----------------------------------------------------------------------------
(* workaroundCreepyXServer, lines 197-234. *)

\* (mutant) the product is kept in a CARD16
ScaleMs_Wrap16(secs) == (secs * MS_PER_SEC) % (CARD16_MAX + 1)

\* lines 217, 221, 225: a sum of CARD16 timeouts times 1000.  The operands
\* are promoted to int, so nothing wraps at 16 bits, and the largest
\* product, 3 * 65535 * 1000, is below 2^31.
ScaleMs(secs) == secs * MS_PER_SEC

\* (mutant) the addition is made without the comparison
PlusIfBelow_NoGuard(t, ms) == AddU64(t, ToU64(ms))

\* lines 217-218 (and 221-222, 225-226): if (idleTime < (unsigned)t)
\* idleTime += t, on unsigned long
PlusIfBelow(t, ms) ==
  IF LtU64(t, ToU64(ms)) THEN AddU64(t, ToU64(ms)) ELSE t

\* (mutant) the test of onoff is missing
Corrected_NoOnoff(t, sb, su, of, st, on) ==
  IF st = DPMSModeStandby THEN PlusIfBelow(t, ScaleMs(sb))
  ELSE IF st = DPMSModeSuspend THEN PlusIfBelow(t, ScaleMs(su + sb))
  ELSE IF st = DPMSModeOff THEN PlusIfBelow(t, ScaleMs(of + su + sb))
  ELSE t

\* lines 211-233: what the function returns once standby, suspend, off,
\* state and onoff hold whatever the two queries left in them
Corrected(t, sb, su, of, st, on) ==
  IF ~on THEN t
  ELSE IF st = DPMSModeStandby THEN PlusIfBelow(t, ScaleMs(sb))
  ELSE IF st = DPMSModeSuspend THEN PlusIfBelow(t, ScaleMs(su + sb))
  ELSE IF st = DPMSModeOff THEN PlusIfBelow(t, ScaleMs(of + su + sb))
  ELSE t

\* return x from workaroundCreepyXServer: line 109 stores it in *idle
ReturnIdle(x) ==
  /\ idle' = x
  /\ pc' = "XFree"

\* lines 203-204
DPMSQueryExtension ==
  /\ pc = "DPMSQueryExtension"
  /\ calls' = Append(calls, "DPMSQueryExtension")
  /\ \E ok \in BOOLEAN :
       IF ok
         THEN /\ pc' = "DPMSCapable"
              /\ UNCHANGED <<idle, failed>>
         ELSE /\ failed' = failed \cup {"DPMSQueryExtension"}
              /\ ReturnIdle(idleTime)
  /\ UNCHANGED <<argv, unitMag, human, ret, dpy, ssi, ssi_idle, vendrel, stdout, stderr,
                 exitStatus, idleTime, standby, suspend, off, state, onoff,
                 capable>>

\* lines 205-206: DPMSCapable answers TRUE or FALSE; a request that fails
\* makes it answer FALSE
DPMSCapable ==
  /\ pc = "DPMSCapable"
  /\ calls' = Append(calls, "DPMSCapable")
  /\ \E answer \in {"capable", "incapable", "failed"} :
       /\ capable' = (answer = "capable")
       /\ failed' = IF answer = "failed" THEN failed \cup {"DPMSCapable"}
                    ELSE failed
       /\ IF answer = "capable"
            THEN pc' = "DPMSGetTimeouts" /\ UNCHANGED idle
            ELSE ReturnIdle(idleTime)
  /\ UNCHANGED <<argv, unitMag, human, ret, dpy, ssi, ssi_idle, vendrel, stdout, stderr,
                 exitStatus, idleTime, standby, suspend, off, state, onoff>>

\* line 208: the result of DPMSGetTimeouts is not looked at.  When the
\* request fails nothing is stored, and standby, suspend and off keep the
\* indeterminate values of uninitialised locals: any CARD16.
DPMSGetTimeouts ==
  /\ pc = "DPMSGetTimeouts"
  /\ calls' = Append(calls, "DPMSGetTimeouts")
  /\ \E ok \in BOOLEAN :
       failed' = IF ok THEN failed ELSE failed \cup {"DPMSGetTimeouts"}
  /\ \E sb \in Card16Vals, su \in Card16Vals, of \in Card16Vals :
       /\ standby' = sb
       /\ suspend' = su
       /\ off' = of
  /\ pc' = "DPMSInfo"
  /\ UNCHANGED <<argv, unitMag, human, idle, ret, dpy, ssi, ssi_idle, vendrel, stdout,
                 stderr, exitStatus, idleTime, state, onoff, capable>>

\* lines 209-233: the result of DPMSInfo is not looked at either; when the
\* request fails state and onoff are indeterminate.  The rest of the
\* function is computation on the locals, then the return.
DPMSInfo ==
  /\ pc = "DPMSInfo"
  /\ calls' = Append(calls, "DPMSInfo")
  /\ \E ok \in BOOLEAN :
       failed' = IF ok THEN failed ELSE failed \cup {"DPMSInfo"}
  /\ \E st \in StateVals, on \in BOOLEAN :
       /\ state' = st
       /\ onoff' = on
       /\ idleTime' = Corrected(idleTime, standby, suspend, off, st, on)
  /\ ReturnIdle(idleTime')
  /\ UNCHANGED <<argv, unitMag, human, ret, dpy, ssi, ssi_idle, vendrel, stdout, stderr,
                 exitStatus, standby, suspend, off, capable>>

----------------------------------------------------------------------------
(* get_x_idletime, lines 114-117, and main, lines 171-182. *)

\* line 114.  workaroundCreepyXServer has returned by now: its frame, and
\* with it idleTime, standby, suspend, off, state and onoff, is gone.
XFree ==
  /\ pc = "XFree"
  /\ ssi' = "freed"
  /\ calls' = Append(calls, "XFree")
  /\ pc' = "XCloseDisplay"
  /\ idleTime' = Zero
  /\ standby' = 0
  /\ suspend' = 0
  /\ off' = 0
  /\ state' = 0
  /\ onoff' = FALSE
  /\ UNCHANGED <<argv, unitMag, human, idle, ret, dpy, ssi_idle, vendrel, stdout,
                 stderr, exitStatus, capable, failed>>

\* (mutant) the success path returns 0 without XCloseDisplay
XCloseDisplay_Missing ==
  /\ pc = "XCloseDisplay"
  /\ ret' = 0
  /\ pc' = "main_ret"
  /\ UNCHANGED <<argv, unitMag, human, idle, dpy, ssi, ssi_idle, vendrel,
                 calls, stdout, stderr, exitStatus>>
  /\ UNCHANGED wvars

\* lines 115-117: XCloseDisplay(dpy); return 0
XCloseDisplay ==
  /\ pc = "XCloseDisplay"
  /\ dpy' = "closed"
  /\ calls' = Append(calls, "XCloseDisplay")
  /\ ret' = 0
  /\ pc' = "main_ret"
  /\ UNCHANGED <<argv, unitMag, human, idle, ssi, ssi_idle, vendrel, stdout, stderr,
                 exitStatus>>
  /\ UNCHANGED wvars

\* (mutant) the value get_x_idletime returned is not looked at
main_ret_IgnoreRet ==
  /\ pc = "main_ret"
  /\ stdout' = stdout \o (IF human # 0 THEN print_human_time(idle)
                          ELSE print_raw(idle))
  /\ unitMag' = IF human # 0 THEN HumanMags(idle) ELSE unitMag
  /\ exitStatus' = EXIT_SUCCESS
  /\ pc' = "exit"
  /\ UNCHANGED <<argv, human, idle, ret, stderr>>
  /\ UNCHANGED xvars
  /\ UNCHANGED wvars

\* lines 171-182: main after get_x_idletime has returned
main_ret ==
  /\ pc = "main_ret"
  /\ IF ret < 0
       THEN /\ exitStatus' = EXIT_FAILURE
            /\ UNCHANGED <<stdout, unitMag>>
       ELSE /\ stdout' = stdout \o (IF human # 0 THEN print_human_time(idle)
                                    ELSE print_raw(idle))
            /\ unitMag' = IF human # 0 THEN HumanMags(idle) ELSE unitMag
            /\ exitStatus' = EXIT_SUCCESS
  /\ pc' = "exit"
  /\ UNCHANGED <<argv, human, idle, ret, stderr>>
  /\ UNCHANGED xvars
  /\ UNCHANGED wvars

Next ==
  \/ main_args
  \/ XOpenDisplay
  \/ XScreenSaverQueryExtension
  \/ XScreenSaverAllocInfo
  \/ XScreenSaverQueryInfo
  \/ VendorRelease
  \/ DPMSQueryExtension
  \/ DPMSCapable
  \/ DPMSGetTimeouts
  \/ DPMSInfo
  \/ XFree
  \/ XCloseDisplay
  \/ main_ret

Spec == Init /\ [][Next]_vars

----------------------------------------------------------------------------
(* print_human_time on its own: the run is taken up where get_x_idletime   *)
(* has just returned 0 to a main started with -H, with any duration in     *)
(* *idle, and main goes on from there (lines 171-178).                     *)

\* x * m on uint64_t, m a positive int: the carry into digit i
RECURSIVE MulCarry(_, _, _)
MulCarry(x, m, i) ==
  IF i = HexLen THEN 0
  ELSE (x[i + 1] * m + MulCarry(x, m, i + 1)) \div 16

MulU64(x, m) == [i \in 1..HexLen |-> (x[i] * m + MulCarry(x, m, i)) % 16]

\* the durations print_human_time is given: every mix of small components,
\* the idle times of the full run, and durations of 2^31 - 1 days and more
HumanTimes ==
  {ToU64(d * convFacs[1] + h * convFacs[2] + m * convFacs[3]
         + sec * convFacs[4] + ms) :
     d \in 0..MaxUnit, h \in 0..MaxUnit, m \in 0..MaxUnit,
     sec \in 0..MaxUnit, ms \in 0..MaxUnit}
  \cup RawIdles
  \cup {AddU64(MulU64(ToU64(2147483647), convFacs[1]), ToU64(convFacs[1] - 1)),
        AddU64(MulU64(ToU64(2147483647), convFacs[1]), ToU64(convFacs[1])),
        MulU64(AddU64(ToU64(2147483647), ToU64(2147483647)), convFacs[1]),
        MulU64(AddU64(AddU64(ToU64(2147483647), ToU64(2147483647)), ToU64(2)),
               convFacs[1])}

HumanInit ==
  /\ argv \in {<<"xprintidle", "-H">>, <<"xprintidle", "--human-readable">>}
  /\ pc = "main_ret"
  /\ human = 1
  /\ idle \in HumanTimes
  /\ ret = 0
  /\ dpy = "closed"
  /\ ssi = "freed"
  /\ ssi_idle = idle
  /\ vendrel = FIXED_VENDREL
  /\ idleTime = Zero
  /\ standby = 0
  /\ suspend = 0
  /\ off = 0
  /\ state = 0
  /\ onoff = FALSE
  /\ capable = FALSE
  /\ failed = {}
  /\ calls = <<"XOpenDisplay", "XScreenSaverQueryExtension",
               "XScreenSaverAllocInfo", "XScreenSaverQueryInfo", "XFree",
               "XCloseDisplay">>
  /\ stdout = <<>>
  /\ stderr = <<>>
  /\ unitMag = <<>>
  /\ exitStatus = -1

HumanNext == main_ret

HumanSpec == HumanInit /\ [][HumanNext]_vars

----------------------------------------------------------------------------
(* Vocabulary of the properties. *)

\* how often x occurs in the sequence s
Count(s, x) == Cardinality({i \in 1..Len(s) : s[i] = x})

LastCall == IF calls = <<>> THEN "" ELSE calls[Len(calls)]

\* x is below 2^31, so that NatOf(x) is its value as a TLC integer
IsSmall(x) == (\A i \in 1..(HexLen - 8) : x[i] = 0) /\ x[HexLen - 7] < 8

RECURSIVE NatFrom(_, _)
NatFrom(x, i) == IF i = 0 THEN 0 ELSE 16 * NatFrom(x, i - 1) + x[i]
NatOf(x) == NatFrom(x, HexLen)

\* get_x_idletime has returned to main
Returned == pc \in {"main_ret", "exit"} /\ calls # <<>>

\* get_x_idletime has stored *idle (line 109 or 111) and not yet freed ssi;
\* after workaroundCreepyXServer its locals are still those it returned with
Stored == pc = "XFree"

\* *idle is set: from the store until the process ends
IdleSet == pc \in {"XFree", "XCloseDisplay"} \/ (Returned /\ ret = 0)

Diagnostics == {"couldn't open display",
                "screen saver extension not supported",
                "couldn't allocate screen saver info",
                "couldn't query screen saver info"}

----------------------------------------------------------------------------
(* C1: in get_x_idletime, once XOpenDisplay has succeeded the connection   *)
(* is closed exactly once before the function returns, on the success path *)
(* and on each failure branch; no path returns with the connection open,   *)
(* and a connection that was never opened is never closed.                 *)
C1_ClosedExactlyOnce ==
  /\ Count(calls, "XCloseDisplay") <= 1
  /\ Count(calls, "XCloseDisplay") = 1 <=> dpy = "closed"
  /\ dpy = "closed" => calls[1] = "XOpenDisplay"
  /\ Returned =>
       /\ dpy # "open"
       /\ dpy = "none" <=> stderr = <<"couldn't open display">>

C1_Witness ==
  /\ pc = "exit"
  /\ dpy = "closed"
  /\ ret = -1
  /\ stderr = <<"screen saver extension not supported">>

(* C2: with a first argument that is none of the six recognised options,   *)
(* or with an extra argument after a recognised one, main prints the usage *)
(* text and exits with status 1, without querying the display server and   *)
(* without printing an idle value.                                         *)
C2_UnknownArgPrintsUsage ==
  (/\ pc = "exit"
   /\ argc # 1
   /\ \/ Arg(1) \notin {"-h", "--help", "-v", "--version", "-H",
                        "--human-readable"}
      \/ argc > 2)
  => /\ stdout # <<>>
     /\ \A i \in 1..Len(stdout) : stdout[i].kind = "usage"
     /\ exitStatus = 1
     /\ calls = <<>>

(* C3: for every vendor release >= 12000000 (12000000 included) the value  *)
(* get_x_idletime stores is the raw idle value and no DPMS query is made,  *)
(* whatever the DPMS state; for 11999999 and below the raw value goes      *)
(* through workaroundCreepyXServer and what that returns is stored.        *)
C3_VendorThreshold ==
  /\ IdleSet /\ vendrel >= 12000000 =>
       /\ idle = ssi_idle
       /\ \A i \in 1..Len(calls) :
            calls[i] \notin {"DPMSQueryExtension", "DPMSCapable",
                             "DPMSGetTimeouts", "DPMSInfo"}
  /\ IdleSet /\ vendrel <= 11999999 =>
       Count(calls, "DPMSQueryExtension") = 1
  /\ Stored /\ vendrel <= 11999999 => idle = idleTime

C3_Witness ==
  /\ Stored
  /\ vendrel = 12000000
  /\ ssi_idle = ToU64(0)

(* C4: with DPMS capable and enabled, workaroundCreepyXServer returns      *)
(* raw + T when raw < T and raw when raw >= T, where T is standby*1000 in  *)
(* mode Standby, (suspend+standby)*1000 in mode Suspend and                *)
(* (off+suspend+standby)*1000 in mode Off; T does not wrap at 16 or 32     *)
(* bits: standby = suspend = off = 65535, mode Off, raw = 0 gives          *)
(* 196605000.                                                              *)
C4_T ==
  IF state = 1 THEN standby * 1000
  ELSE IF state = 2 THEN (suspend + standby) * 1000
  ELSE (off + suspend + standby) * 1000

C4_AddsTimeoutBelowThreshold ==
  (Stored /\ LastCall = "DPMSInfo" /\ capable /\ onoff /\ state \in {1, 2, 3})
  => /\ IF IsSmall(ssi_idle) /\ NatOf(ssi_idle) < C4_T
          THEN IsSmall(idle) /\ NatOf(idle) = NatOf(ssi_idle) + C4_T
          ELSE idle = ssi_idle
     /\ (standby = 65535 /\ suspend = 65535 /\ off = 65535 /\ state = 3
         /\ ssi_idle = ToU64(0))
        => NatOf(idle) = 196605000

C4_Witness ==
  /\ Stored
  /\ LastCall = "DPMSInfo"
  /\ failed = {}
  /\ capable
  /\ onoff
  /\ state = 3
  /\ standby = 65535
  /\ suspend = 65535
  /\ off = 65535
  /\ ssi_idle = ToU64(0)
  /\ NatOf(idle) = 196605000

(* C5: workaroundCreepyXServer returns the raw idle value unchanged when   *)
(* the server is not DPMS-capable, when DPMS is capable but disabled, when *)
(* DPMS is enabled in mode On, and when it is enabled in a mode that is    *)
(* none of On, Standby, Suspend, Off, for every raw value and timeouts.    *)
C5_IdentityWithoutPowerSaving ==
  Stored =>
    /\ (LastCall = "DPMSCapable" /\ ~capable) => idle = ssi_idle
    /\ (LastCall = "DPMSInfo" /\ ~onoff) => idle = ssi_idle
    /\ (LastCall = "DPMSInfo" /\ onoff /\ state \notin {1, 2, 3})
       => idle = ssi_idle

C5_Witness ==
  /\ Stored
  /\ LastCall = "DPMSInfo"
  /\ failed = {}
  /\ ~onoff
  /\ state = 3
  /\ standby = 1
  /\ ssi_idle = ToU64(0)

(* C6: if any DPMS query made during the correction fails (the extension   *)
(* query, the capability query, DPMSGetTimeouts or DPMSInfo), no           *)
(* correction is applied: the raw idle value is what the run prints, and   *)
(* the run exits with status 0.                                            *)
C6_FailedDpmsQueryMeansNoCorrection ==
  (pc = "exit" /\ failed # {})
  => /\ exitStatus = 0
     /\ Len(stdout) = 1
     /\ stdout[1].kind \in {"raw", "human"}
     /\ stdout[1].val = ssi_idle

(* C7: for every raw idle value, vendor release and DPMS snapshot, the     *)
(* value get_x_idletime stores is not below the raw idle value the server  *)
(* reported: nothing is subtracted and the addition does not wrap.         *)
C7_NeverBelowRaw == IdleSet => ~LtU64(idle, ssi_idle)

C7_Witness ==
  /\ Stored
  /\ ssi_idle = ToU64(2999)
  /\ state = 3
  /\ onoff
  /\ LtU64(ssi_idle, idle)

(* C8: a run that reaches the idle query ends either with exactly one line *)
(* carrying the idle value on stdout, nothing on stderr and status 0, or   *)
(* with exactly one diagnostic line on stderr, nothing on stdout and a     *)
(* non-zero status; no run writes an idle value and then fails.            *)
C8_OneOutcome ==
  /\ (pc = "exit" /\ calls # <<>>) =>
       \/ /\ exitStatus = 0
          /\ Len(stdout) = 1
          /\ stdout[1].kind \in {"raw", "human"}
          /\ stdout[1].val = idle
          /\ stderr = <<>>
          /\ ret = 0
       \/ /\ exitStatus > 0
          /\ stdout = <<>>
          /\ Len(stderr) = 1
          /\ stderr[1] \in Diagnostics
          /\ ret < 0
  /\ calls # <<>> => (stdout = <<>> \/ stderr = <<>>)

C8_Witness ==
  /\ pc = "exit"
  /\ exitStatus = 1
  /\ stdout = <<>>
  /\ stderr = <<"couldn't allocate screen saver info">>

(* C9: with -v or --version as first argument the program writes exactly   *)
(* one line, the version string, to stdout, exits with status 0 and never  *)
(* attempts to open a display connection.                                  *)
C9_VersionNeedsNoDisplay ==
  (argc # 1 /\ Arg(1) \in {"-v", "--version"})
  => /\ calls = <<>>
     /\ dpy = "none"
     /\ pc \in {"main", "exit"}
     /\ pc = "exit" =>
          /\ Len(stdout) = 1
          /\ stdout[1].kind = "version"
          /\ stdout[1].text = "xprintidle 0.3.0"
          /\ stderr = <<>>
          /\ exitStatus = 0

C9_Witness ==
  /\ pc = "exit"
  /\ argc = 2
  /\ Arg(1) = "--version"
  /\ Len(stdout) = 1
  /\ exitStatus = 0

(* C10: with -h or --help as first argument the program prints the usage   *)
(* text and exits with status 1 without opening a display connection and   *)
(* without printing an idle value.                                         *)
C10_HelpPrintsUsage ==
  (argc # 1 /\ Arg(1) \in {"-h", "--help"})
  => /\ calls = <<>>
     /\ dpy = "none"
     /\ pc \in {"main", "exit"}
     /\ pc = "exit" =>
          /\ Len(stdout) = 11
          /\ \A i \in 1..Len(stdout) : stdout[i].kind = "usage"
          /\ stdout[1].text = "usage: xprintidle [OPTION]"
          /\ exitStatus = 1

C10_Witness ==
  /\ pc = "exit"
  /\ argc = 2
  /\ Arg(1) = "-h"
  /\ Len(stdout) = 11
  /\ exitStatus = 1

(* C11: for every unsigned 64-bit duration t the magnitudes                *)
(* print_human_time computes for days, hours, minutes, seconds and         *)
(* milliseconds are the successive truncating quotients of t by 86400000,  *)
(* 3600000, 60000, 1000 and 1, so that days*86400000 + hours*3600000 +     *)
(* minutes*60000 + seconds*1000 + milliseconds = t; the day count is not   *)
(* truncated or made negative by being held in an int.                     *)
C11_Decomposes ==
  /\ \A i \in 1..5 : unitMag[i] >= 0
  /\ unitMag[2] < 24
  /\ unitMag[3] < 60
  /\ unitMag[4] < 60
  /\ unitMag[5] < 1000
  /\ AddU64(MulU64(ToU64(unitMag[1]), 86400000),
            ToU64(unitMag[2] * 3600000 + unitMag[3] * 60000
                  + unitMag[4] * 1000 + unitMag[5])) = idle

C11_MagnitudesAreQuotients ==
  (pc = "exit" /\ Len(unitMag) = 5) => C11_Decomposes

\* C11 holds of the durations below 2^31 days
C11_BelowIntMaxDays ==
  (pc = "exit" /\ Len(unitMag) = 5
   /\ LtU64(idle, AddU64(MulU64(ToU64(2147483647), 86400000), ToU64(86400000))))
  => C11_Decomposes

(* C12: print_human_time prints, in the order day, hour, minute, second,   *)
(* millisecond, exactly the components whose magnitude is not zero,        *)
(* separated by ", ", the unit name followed by "s" if and only if the     *)
(* magnitude is not 1; when every component is zero it prints              *)
(* "0 milliseconds"; the output is one line; 90061000 gives                *)
(* "1 day, 1 hour, 1 minute, 1 second" and 2000 gives "2 seconds".         *)
C12_Names == <<"day", "hour", "minute", "second", "millisecond">>

C12_Part(i) ==
  Dec(unitMag[i]) \o " " \o C12_Names[i] \o (IF unitMag[i] = 1 THEN "" ELSE "s")

RECURSIVE C12_Join(_)
C12_Join(i) ==
  IF i > 5 THEN ""
  ELSE IF unitMag[i] = 0 THEN C12_Join(i + 1)
  ELSE C12_Part(i)
       \o (IF \E j \in (i + 1)..5 : unitMag[j] # 0 THEN ", " ELSE "")
       \o C12_Join(i + 1)

C12_HumanFormat ==
  (pc = "exit" /\ Len(unitMag) = 5)
  => /\ Len(stdout) = 1
     /\ stdout[1].kind = "human"
     /\ stdout[1].text = IF \A i \in 1..5 : unitMag[i] = 0
                           THEN "0 milliseconds"
                           ELSE C12_Join(1)
     /\ idle = ToU64(90061000)
          => stdout[1].text = "1 day, 1 hour, 1 minute, 1 second"
     /\ idle = ToU64(2000) => stdout[1].text = "2 seconds"
     /\ idle = ToU64(0) => stdout[1].text = "0 milliseconds"

C12_Witness ==
  /\ pc = "exit"
  /\ idle = ToU64(90061000)
  /\ unitMag = <<1, 1, 1, 1, 0>>
  /\ Len(stdout) = 1
  /\ stdout[1].text = "1 day, 1 hour, 1 minute, 1 second"

(* C13: every successful run makes exactly one connection open, exactly   *)
(* one idle-info query, DPMS queries if and only if the vendor release is  *)
(* below 12000000 and only while the connection is open, exactly one       *)
(* connection close, and only then exactly one print of the idle value,    *)
(* after which the process terminates; no server query follows the close.  *)
C13_DpmsCalls ==
  {"DPMSQueryExtension", "DPMSCapable", "DPMSGetTimeouts", "DPMSInfo"}

\* the position of the one occurrence of x in calls
C13_At(x) == CHOOSE i \in 1..Len(calls) : calls[i] = x

C13_StepOrder ==
  /\ dpy = "closed" => LastCall = "XCloseDisplay"
  /\ pc \in C13_DpmsCalls => dpy = "open"
  /\ (\E i \in 1..Len(stdout) : stdout[i].kind \in {"raw", "human"}) =>
       /\ pc = "exit"
       /\ dpy = "closed"
       /\ exitStatus = 0
  /\ (pc = "exit" /\ exitStatus = 0 /\ calls # <<>>) =>
       /\ Count(calls, "XOpenDisplay") = 1
       /\ calls[1] = "XOpenDisplay"
       /\ Count(calls, "XScreenSaverQueryInfo") = 1
       /\ Count(calls, "XCloseDisplay") = 1
       /\ calls[Len(calls)] = "XCloseDisplay"
       /\ (\E i \in 1..Len(calls) : calls[i] \in C13_DpmsCalls)
            <=> vendrel < 12000000
       /\ \A i \in 1..Len(calls) :
            calls[i] \in C13_DpmsCalls =>
              /\ C13_At("XScreenSaverQueryInfo") < i
              /\ i < C13_At("XCloseDisplay")
              /\ Count(calls, calls[i]) = 1
       /\ Len(stdout) = 1
       /\ stdout[1].kind \in {"raw", "human"}

C13_Witness ==
  /\ pc = "exit"
  /\ exitStatus = 0
  /\ vendrel = 11999999
  /\ calls = <<"XOpenDisplay", "XScreenSaverQueryExtension",
               "XScreenSaverAllocInfo", "XScreenSaverQueryInfo",
               "DPMSQueryExtension", "DPMSCapable", "DPMSGetTimeouts",
               "DPMSInfo", "XFree", "XCloseDisplay">>
  /\ Len(stdout) = 1

====
